---- MODULE Spec2Model ----
(***************************************************************************)
(* Model of medaka/stitch.py: stitch_from_probs (the Sequence Stitcher)    *)
(* and find_snps (the Variant Caller), both walking the per-reference      *)
(* stream of probability chunks with a two-chunk window (s1, s2).          *)
(*                                                                         *)
(* A chunk is a window [lo..hi] of pileup columns of its reference; its    *)
(* rows are vectors of integer weights in units of 1/Scale.  Label indices *)
(* are 0-based as in the code.  The locals of the running function are the *)
(* record loc; the chunk source, the label alphabet, the reference bases   *)
(* and the threshold are inputs fixed by Init.  The reduction of the        *)
(* regions argument to reference names, one block of find_snps and the     *)
(* classification of one row have specifications of their own.             *)
(***************************************************************************)
EXTENDS Integers, Sequences, FiniteSets, TLC

VARIABLES regions,         \* the regions argument
          streams,         \* per requested reference, the chunks the index yields
          label_decoding,  \* index.meta['medaka_label_decoding']
          refq,            \* selects the reference bases (ref_fasta)
          threshold,       \* find_snps threshold, in units of 1/Scale
          alg,             \* which function is running
          loc,             \* the locals of the running function
          row,             \* one major-position row under classification
          ref_base,        \*   its encoded reference base
          sorted_inds,     \*   np.argsort of the row
          calls            \* the classification of the row

vars == <<regions, streams, label_decoding, refq, threshold, alg, loc,
          row, ref_base, sorted_inds, calls>>

------------------------------------------------------------------------------
(* Bounds *)
MaxPos    == 4    \* pileup columns per reference
MaxChunks == 3    \* chunks over all requested references
Scale     == 4    \* probabilities are k/Scale

(* Python's None for an index, an unbound local, and None for a chunk *)
None    == -1
Unbound == -2
NoChunk == 0

_gap_ == "-"

Min(a, b) == IF a < b THEN a ELSE b

------------------------------------------------------------------------------
(* The chunk source *)

\* positions of pileup column c: every third column is an insertion column
PosAt(c) == [major |-> (2 * c - 1) \div 3, minor |-> IF c % 3 = 0 THEN 1 ELSE 0]

Windows == {w \in [lo : 1..MaxPos, hi : 1..MaxPos] : w.lo <= w.hi}

\* streams of n chunks, ordered by ascending start coordinate
StreamsOfLen(n) ==
    {s \in [1..n -> Windows] : \A i \in 1..n, j \in 1..n : i < j => s[i].lo <= s[j].lo}

\* the requested references: one reference with up to n chunks, or two with
\* up to n chunks in all, the second with at most one
StreamLists(n) ==
    UNION {{<<s>> : s \in StreamsOfLen(k)} : k \in 0..n}
    \cup UNION {{<<s, t>> : s \in StreamsOfLen(k[1]), t \in StreamsOfLen(k[2])} :
                   k \in {m \in (0..n) \X (0..1) : m[1] + m[2] <= n}}

Alphabets == {<<"A", "C", "G", _gap_>>, <<_gap_, "A", "C", "G">>}

\* rows of label weights the chunks are filled with
RowSet == << <<Scale - 1, 1, 0, 0>>,
             <<0, Scale - 1, 1, 0>>,
             <<1, 0, 0, Scale - 1>>,
             <<2, 2, 0, Scale - 4>>,
             <<Scale - 2, 0, 0, 2>> >>

ChunkLen(ch) == ch.hi - ch.lo + 1

\* s.positions
Positions(ch) == [i \in 1..ChunkLen(ch) |-> PosAt(ch.lo + i - 1)]

\* s.label_probs of chunk k of reference r
LabelProbs(r, k) ==
    LET ch == streams[r][k]
    IN  [i \in 1..ChunkLen(ch) |-> RowSet[((ch.lo + i - 1 + 2 * k) % Len(RowSet)) + 1]]

\* s.last_pos
last_pos(ch) == PosAt(ch.hi)

\* tuple comparison p <= q
PosLeq(p, q) == p.major < q.major \/ (p.major = q.major /\ p.minor <= q.minor)

------------------------------------------------------------------------------
(* Helpers of stitch_from_probs *)

\* s[a:b] for a, b None or a non-negative index
PySlice(s, a, b) ==
    LET from == IF a = None THEN 0 ELSE Min(a, Len(s))
        upto == IF b = None THEN Len(s) ELSE Min(b, Len(s))
    IN  IF from >= upto THEN <<>> ELSE SubSeq(s, from + 1, upto)

\* the last index holding the maximum
ArgMaxLast(r) ==
    CHOOSE i \in 0..(Len(r) - 1) :
        /\ \A j \in 0..(Len(r) - 1) : r[j + 1] <= r[i + 1]
        /\ \A j \in (i + 1)..(Len(r) - 1) : r[j + 1] < r[i + 1]

\* np.argmax of one row: the first index holding the maximum
ArgMax(r) ==
    CHOOSE i \in 0..(Len(r) - 1) :
        /\ \A j \in 0..(Len(r) - 1) : r[j + 1] <= r[i + 1]
        /\ \A j \in 0..(i - 1) : r[j + 1] < r[i + 1]

RECURSIVE StripGap(_)
\* str.replace(_gap_, '')
StripGap(s) ==
    IF s = <<>> THEN <<>>
    ELSE IF Head(s) = _gap_ THEN StripGap(Tail(s))
         ELSE <<Head(s)>> \o StripGap(Tail(s))

\* ''.join([label_decoding[x] for x in best]).replace(_gap_, '')
Decode(rows) == StripGap([i \in 1..Len(rows) |-> label_decoding[ArgMax(rows[i]) + 1]])

\* get_pos = lambda s, i: '{}.{}'.format(major + 1, minor), for i = 0 and i = -1
get_pos(ch, i) ==
    LET p == IF i = 0 THEN PosAt(ch.lo) ELSE PosAt(ch.hi)
    IN  <<p.major + 1, p.minor>>

\* s2.last_pos < s1.last_pos: a chunk ending where s1 ends is not skipped
ContainedStrictly(c1, c2) == ~PosLeq(last_pos(c1), last_pos(c2))

\* s2.last_pos <= s1.last_pos
Contained(c1, c2) == PosLeq(last_pos(c2), last_pos(c1))

------------------------------------------------------------------------------
(* The regions argument *)
MaxRegions == 3    \* regions in one request

\* regions=None
NoRegions == [supplied |-> FALSE, list |-> <<>>]

RefNames == {1, 2}

\* a region string: 'ref', 'ref:start-end' or 'ref:start-'
RegionStrings == [ref_name : RefNames, bounds : {"", "s-e", "s-"}]

\* the lists of at most n region strings
RegionLists(n) == UNION {[1..k -> RegionStrings] : k \in 0..n}

\* Region.from_string(r): the part of the string that is absent is None
from_string(s) ==
    [ref_name |-> s.ref_name,
     start |-> IF s.bounds \in {"s-e", "s-"} THEN 0 ELSE None,
     end   |-> IF s.bounds = "s-e" THEN 1 ELSE None]

------------------------------------------------------------------------------
(* The locals before the call *)
InitLoc ==
    [pc |-> "start", ri |-> 0, data_gen |-> <<>>, s1 |-> NoChunk,
     start_1_ind |-> Unbound, start_2_ind |-> Unbound,
     seq |-> <<>>, start |-> <<0, 0>>, ref_assemblies |-> <<>>,
     err |-> "", resolved |-> <<>>, ranges |-> <<>>, written |-> <<>>,
     ref_names |-> <<>>, warnings |-> <<>>]

Raise(f, e) == [f EXCEPT !.pc = "raised", !.err = e]

\* for ref_name in ref_names: ... s1 = next(data_gen) ... start_1_ind = None
StitchBeginRef(f, gen) ==
    LET r == f.ri + 1
        g == [f EXCEPT !.ri = r, !.seq = <<>>]
    IN  IF gen = <<>> THEN Raise([g EXCEPT !.data_gen = gen], "StopIteration")
        ELSE [g EXCEPT !.data_gen = Tail(gen), !.s1 = Head(gen),
                       !.start = get_pos(streams[r][Head(gen)], 0),
                       !.start_1_ind = None, !.pc = "loop"]

\* one pass of the body of `for s2 in chain(data_gen, (None,))`;
\* res is what get_sample_overlap returns if it is called
StitchStep(f, res) ==
    LET r   == f.ri
        s2  == IF f.data_gen = <<>> THEN NoChunk ELSE Head(f.data_gen)
        gen == IF f.data_gen = <<>> THEN <<>> ELSE Tail(f.data_gen)
        c1  == streams[r][f.s1]
    IN  IF s2 # NoChunk /\ Contained(c1, streams[r][s2])
        THEN [f EXCEPT !.data_gen = gen]
        ELSE
          LET end_1_ind   == IF s2 = NoChunk THEN None ELSE res[1]
              start_2_ind == IF s2 = NoChunk THEN f.start_2_ind ELSE res[2]
              seq1 == f.seq \o Decode(PySlice(LabelProbs(r, f.s1), f.start_1_ind, end_1_ind))
              g == [f EXCEPT !.data_gen = gen,
                             !.start_2_ind = start_2_ind,
                             !.resolved = IF s2 = NoChunk THEN @
                                          ELSE Append(@, <<r, f.s1, s2, res[1], res[2]>>),
                             !.ranges = Append(@, <<r, f.s1, f.start_1_ind, end_1_ind>>)]
              advance(h) == [h EXCEPT !.s1 = s2, !.start_1_ind = start_2_ind,
                                      !.pc = IF s2 = NoChunk THEN "start" ELSE "loop"]
          IN  IF end_1_ind = None
              THEN LET h == [g EXCEPT !.ref_assemblies =
                                         Append(@, [key |-> <<r, f.start, get_pos(c1, -1)>>,
                                                    seq |-> seq1]),
                                      !.seq = <<>>]
                   IN  IF start_2_ind = Unbound THEN Raise(h, "UnboundLocalError")
                       ELSE IF start_2_ind = None
                            THEN IF s2 = NoChunk THEN Raise(h, "AttributeError")
                                 ELSE advance([h EXCEPT !.start = get_pos(streams[r][s2], 0)])
                            ELSE advance(h)
              ELSE advance([g EXCEPT !.seq = seq1])

------------------------------------------------------------------------------
(* Helpers of find_snps *)

BaseLetters == <<"A", "C", "G">>

\* label_encoding = {label: ind for ind, label in enumerate(label_decoding)}
label_encoding(x) == CHOOSE i \in 0..(Len(label_decoding) - 1) : label_decoding[i + 1] = x

\* pysam.FastaFile(ref_fasta).fetch(reference=ref_name)[i]
ref_seq(r, i) == BaseLetters[((i + r + refq) % Len(BaseLetters)) + 1]

Perms(n) == {p \in [1..n -> 0..(n - 1)] : \A i \in 1..n, j \in 1..n : p[i] = p[j] => i = j}

\* np.argsort of one row: an index order that sorts it ascending; the order
\* of equal weights is not fixed by the default (unstable) sort
\* the index orders of a row over the label alphabet
LabelPerms == Perms(Len(BaseLetters) + 1)

ArgSorts(r) ==
    {p \in LabelPerms : \A i \in 1..(Len(r) - 1) : r[p[i] + 1] <= r[p[i + 1] + 1]}

primary_label(p)   == p[Len(p)]
secondary_label(p) == p[Len(p) - 1]
primary_prob(r, p)   == r[primary_label(p) + 1]
secondary_prob(r, p) == r[secondary_label(p) + 1]

\* is_homozygous_snp without is_primary_not_del
IsHomozygousGapAllowed(r, p, ref_enc, thr) ==
    /\ primary_label(p) # ref_enc
    /\ secondary_prob(r, p) < thr

\* is_homozygous_snp
IsHomozygous(r, p, ref_enc, thr) ==
    /\ primary_label(p) # ref_enc
    /\ primary_label(p) # label_encoding(_gap_)
    /\ secondary_prob(r, p) < thr

\* is_heterozygous_snp without is_secondary_prob_ge_thresh
IsHeterozygousAnyProb(r, p, ref_enc, thr) ==
    /\ secondary_label(p) # label_encoding(_gap_)
    /\ primary_label(p) # label_encoding(_gap_)

\* is_heterozygous_snp
IsHeterozygous(r, p, ref_enc, thr) ==
    /\ ~(secondary_prob(r, p) < thr)
    /\ secondary_label(p) # label_encoding(_gap_)
    /\ primary_label(p) # label_encoding(_gap_)

Info(r, p, ref_enc) ==
    [ref_prob |-> r[ref_enc + 1], primary_prob |-> primary_prob(r, p),
     secondary_prob |-> secondary_prob(r, p),
     secondary_label |-> label_decoding[secondary_label(p) + 1]]

\* the Variant of a homozygous row; qual_arg is the argument of np.log10
HomVariant(chrom, pos, r, p, ref_enc) ==
    [chrom |-> chrom, pos |-> pos, ref |-> label_decoding[ref_enc + 1],
     alt |-> <<label_decoding[primary_label(p) + 1]>>, gt |-> "1",
     qual_arg |-> Scale - primary_prob(r, p), info |-> Info(r, p, ref_enc)]

\* the Variant of a heterozygous row, alt not filtered by the reference
HetVariantKeepRef(chrom, pos, r, p, ref_enc) ==
    LET alt == <<label_decoding[primary_label(p) + 1], label_decoding[secondary_label(p) + 1]>>
    IN  [chrom |-> chrom, pos |-> pos, ref |-> label_decoding[ref_enc + 1],
         alt |-> alt, gt |-> IF Len(alt) = 1 THEN "0/1" ELSE "1/2",
         qual_arg |-> Scale - primary_prob(r, p) - secondary_prob(r, p),
         info |-> Info(r, p, ref_enc)]

\* the Variant of a heterozygous row
HetVariant(chrom, pos, r, p, ref_enc) ==
    LET alt == (IF primary_label(p) # ref_enc
                THEN <<label_decoding[primary_label(p) + 1]>> ELSE <<>>)
               \o (IF secondary_label(p) # ref_enc
                   THEN <<label_decoding[secondary_label(p) + 1]>> ELSE <<>>)
    IN  [chrom |-> chrom, pos |-> pos, ref |-> label_decoding[ref_enc + 1],
         alt |-> alt, gt |-> IF Len(alt) = 1 THEN "0/1" ELSE "1/2",
         qual_arg |-> Scale - primary_prob(r, p) - secondary_prob(r, p),
         info |-> Info(r, p, ref_enc)]

RECURSIVE SelectIdx(_, _, _)
\* np.where(mask)[0] over indices i..n
SelectIdx(i, n, mask) ==
    IF i > n THEN <<>>
    ELSE (IF mask[i] THEN <<i>> ELSE <<>>) \o SelectIdx(i + 1, n, mask)

RECURSIVE InsertByPos(_, _)
InsertByPos(sorted, v) ==
    IF sorted = <<>> THEN <<v>>
    ELSE IF sorted[Len(sorted)].pos <= v.pos THEN Append(sorted, v)
         ELSE Append(InsertByPos(SubSeq(sorted, 1, Len(sorted) - 1), v), sorted[Len(sorted)])

RECURSIVE SortByPos(_)
\* variants.sort(key=lambda v: v.pos), a stable sort
SortByPos(vs) ==
    IF vs = <<>> THEN <<>>
    ELSE InsertByPos(SortByPos(SubSeq(vs, 1, Len(vs) - 1)), vs[Len(vs)])

\* the variants of one block with the positions read by block row, not by
\* major row: pos[i] in place of pos[major_inds[i]]
BlockVariantsMisaligned(r, k, start_1_ind, end_1_ind, sorts) ==
    LET pos   == PySlice(Positions(streams[r][k]), start_1_ind, end_1_ind)
        probs == PySlice(LabelProbs(r, k), start_1_ind, end_1_ind)
        IsMajor == [i \in 1..Len(pos) |-> pos[i].minor = 0]
        major_inds  == SelectIdx(1, Len(pos), IsMajor)
        major_pos   == [i \in 1..Len(major_inds) |-> pos[i].major]
        major_probs == [i \in 1..Len(major_inds) |-> probs[major_inds[i]]]
        ref_seq_encoded == [i \in 1..Len(major_pos) |-> label_encoding(ref_seq(r, major_pos[i]))]
        IsHom == [i \in 1..Len(major_pos) |->
                     IsHomozygous(major_probs[i], sorts[i], ref_seq_encoded[i], threshold)]
        IsHet == [i \in 1..Len(major_pos) |->
                     IsHeterozygous(major_probs[i], sorts[i], ref_seq_encoded[i], threshold)]
        hom == SelectIdx(1, Len(major_pos), IsHom)
        het == SelectIdx(1, Len(major_pos), IsHet)
        variants ==
            [j \in 1..Len(hom) |->
                HomVariant(r, major_pos[hom[j]], major_probs[hom[j]], sorts[hom[j]],
                           ref_seq_encoded[hom[j]])]
            \o [j \in 1..Len(het) |->
                HetVariant(r, major_pos[het[j]], major_probs[het[j]], sorts[het[j]],
                           ref_seq_encoded[het[j]])]
    IN  SortByPos(variants)

\* the variants of one block: rows [start_1_ind:end_1_ind] of chunk k of
\* reference r; sorts[i] is the argsort of the i-th major row
BlockVariants(r, k, start_1_ind, end_1_ind, sorts) ==
    LET pos   == PySlice(Positions(streams[r][k]), start_1_ind, end_1_ind)
        probs == PySlice(LabelProbs(r, k), start_1_ind, end_1_ind)
        IsMajor == [i \in 1..Len(pos) |-> pos[i].minor = 0]
        major_inds  == SelectIdx(1, Len(pos), IsMajor)
        major_pos   == [i \in 1..Len(major_inds) |-> pos[major_inds[i]].major]
        major_probs == [i \in 1..Len(major_inds) |-> probs[major_inds[i]]]
        ref_seq_encoded == [i \in 1..Len(major_pos) |-> label_encoding(ref_seq(r, major_pos[i]))]
        IsHom == [i \in 1..Len(major_pos) |->
                     IsHomozygous(major_probs[i], sorts[i], ref_seq_encoded[i], threshold)]
        IsHet == [i \in 1..Len(major_pos) |->
                     IsHeterozygous(major_probs[i], sorts[i], ref_seq_encoded[i], threshold)]
        hom == SelectIdx(1, Len(major_pos), IsHom)
        het == SelectIdx(1, Len(major_pos), IsHet)
        variants ==
            [j \in 1..Len(hom) |->
                HomVariant(r, major_pos[hom[j]], major_probs[hom[j]], sorts[hom[j]],
                           ref_seq_encoded[hom[j]])]
            \o [j \in 1..Len(het) |->
                HetVariant(r, major_pos[het[j]], major_probs[het[j]], sorts[het[j]],
                           ref_seq_encoded[het[j]])]
    IN  SortByPos(variants)

\* the major rows of a block, whose argsorts the block needs
MajorProbs(r, k, start_1_ind, end_1_ind) ==
    LET pos   == PySlice(Positions(streams[r][k]), start_1_ind, end_1_ind)
        probs == PySlice(LabelProbs(r, k), start_1_ind, end_1_ind)
        IsMajor == [i \in 1..Len(pos) |-> pos[i].minor = 0]
        major_inds == SelectIdx(1, Len(pos), IsMajor)
    IN  [i \in 1..Len(major_inds) |-> probs[major_inds[i]]]

\* for ref_name in ref_names: ... s1 = next(data_gen); start_1_ind = None
SnpsBeginRef(f, gen) ==
    LET r == f.ri + 1
        g == [f EXCEPT !.ri = r]
    IN  IF gen = <<>> THEN Raise([g EXCEPT !.data_gen = gen], "StopIteration")
        ELSE [g EXCEPT !.data_gen = Tail(gen), !.s1 = Head(gen),
                       !.start_1_ind = None, !.pc = "loop"]

\* the end_1_ind of the pass about to run
SnpsEnd(f, res) == IF f.data_gen = <<>> THEN None ELSE res[1]

\* one pass of the body of `for s2 in chain(data_gen, (None,))` of find_snps
SnpsStep(f, res, sorts) ==
    LET r   == f.ri
        s2  == IF f.data_gen = <<>> THEN NoChunk ELSE Head(f.data_gen)
        gen == IF f.data_gen = <<>> THEN <<>> ELSE Tail(f.data_gen)
        end_1_ind   == SnpsEnd(f, res)
        start_2_ind == IF s2 = NoChunk THEN f.start_2_ind ELSE res[2]
        g == [f EXCEPT !.data_gen = gen,
                       !.start_2_ind = start_2_ind,
                       !.resolved = IF s2 = NoChunk THEN @
                                    ELSE Append(@, <<r, f.s1, s2, res[1], res[2]>>),
                       !.ranges = Append(@, <<r, f.s1, f.start_1_ind, end_1_ind>>),
                       !.written = @ \o BlockVariants(r, f.s1, f.start_1_ind, end_1_ind, sorts)]
        advance == [g EXCEPT !.s1 = s2, !.start_1_ind = start_2_ind,
                             !.pc = IF s2 = NoChunk THEN "start" ELSE "loop"]
    IN  IF end_1_ind = None /\ start_2_ind = Unbound THEN Raise(g, "UnboundLocalError")
        ELSE IF end_1_ind = None /\ start_2_ind = None /\ s2 = NoChunk
             THEN Raise(g, "AttributeError")
             ELSE advance

------------------------------------------------------------------------------
(* get_sample_overlap(s1, s2) returns (end_1_ind, start_2_ind), each an     *)
(* index or None; two indices designate the same pileup column of s1, s2   *)
ValidOverlap(c1, c2, res) ==
    /\ res[1] \in 0..(ChunkLen(c1) - 1)
    /\ res[2] \in 0..(ChunkLen(c2) - 1)
    /\ c1.lo + res[1] = c2.lo + res[2]

OverlapResults(c1, c2) ==
    {<<None, None>>}
    \cup {<<e, None>> : e \in 0..ChunkLen(c1)}
    \cup {<<None, b>> : b \in 0..(ChunkLen(c2) - 1)}
    \cup {res \in (0..(ChunkLen(c1) - 1)) \X (0..(ChunkLen(c2) - 1)) : ValidOverlap(c1, c2, res)}

NextChunk == IF loc.data_gen = <<>> THEN NoChunk ELSE Head(loc.data_gen)

Inputs == <<regions, streams, label_decoding, refq, threshold>>
RowVars == <<row, ref_base, sorted_inds, calls>>

------------------------------------------------------------------------------
(* stitch_from_probs *)

StitchBegin ==
    /\ alg = "stitch" /\ loc.pc = "start" /\ loc.ri < Len(streams)
    /\ loc' = StitchBeginRef(loc, [i \in 1..Len(streams[loc.ri + 1]) |-> i])
    /\ UNCHANGED <<Inputs, alg, RowVars>>

\* s2 is the terminal marker
StitchTerminal ==
    /\ alg = "stitch" /\ loc.pc = "loop" /\ NextChunk = NoChunk
    /\ loc' = StitchStep(loc, <<None, None>>)
    /\ UNCHANGED <<Inputs, alg, RowVars>>

\* s2.last_pos <= s1.last_pos: continue
StitchSkip ==
    /\ alg = "stitch" /\ loc.pc = "loop" /\ NextChunk # NoChunk
    /\ Contained(streams[loc.ri][loc.s1], streams[loc.ri][NextChunk])
    /\ loc' = StitchStep(loc, <<None, None>>)
    /\ UNCHANGED <<Inputs, alg, RowVars>>

\* end_1_ind, start_2_ind = get_sample_overlap(s1, s2)
StitchOverlap ==
    /\ alg = "stitch" /\ loc.pc = "loop" /\ NextChunk # NoChunk
    /\ ~Contained(streams[loc.ri][loc.s1], streams[loc.ri][NextChunk])
    /\ \E res \in OverlapResults(streams[loc.ri][loc.s1], streams[loc.ri][NextChunk]) :
          loc' = StitchStep(loc, res)
    /\ UNCHANGED <<Inputs, alg, RowVars>>

\* return ref_assemblies
StitchReturn ==
    /\ alg = "stitch" /\ loc.pc = "start" /\ loc.ri = Len(streams)
    /\ loc' = [loc EXCEPT !.pc = "done"]
    /\ UNCHANGED <<Inputs, alg, RowVars>>

------------------------------------------------------------------------------
(* find_snps *)

SnpsBegin ==
    /\ alg = "snps" /\ loc.pc = "start" /\ loc.ri < Len(streams)
    /\ loc' = SnpsBeginRef(loc, [i \in 1..Len(streams[loc.ri + 1]) |-> i])
    /\ UNCHANGED <<Inputs, alg, RowVars>>

RECURSIVE SeqsOver(_)
\* the sequences whose i-th element is drawn from sets[i]
SeqsOver(sets) ==
    IF sets = <<>> THEN {<<>>}
    ELSE {Append(q, x) : q \in SeqsOver(SubSeq(sets, 1, Len(sets) - 1)), x \in sets[Len(sets)]}

\* sorted_prob_inds[:, -2:] for the major rows of the block
\* [start_1_ind:end_1_ind] of s1: the two columns of the argsort that are read
BlockSorts(end_1_ind) ==
    LET mp == MajorProbs(loc.ri, loc.s1, loc.start_1_ind, end_1_ind)
    IN  SeqsOver([i \in 1..Len(mp) |->
                    {SubSeq(p, Len(p) - 1, Len(p)) : p \in ArgSorts(mp[i])}])

\* s2 is the terminal marker
SnpsTerminal ==
    /\ alg = "snps" /\ loc.pc = "loop" /\ NextChunk = NoChunk
    /\ \E sorts \in BlockSorts(None) : loc' = SnpsStep(loc, <<None, None>>, sorts)
    /\ UNCHANGED <<Inputs, alg, RowVars>>

\* end_1_ind, start_2_ind = get_sample_overlap(s1, s2)
SnpsOverlap ==
    /\ alg = "snps" /\ loc.pc = "loop" /\ NextChunk # NoChunk
    /\ \E res \in OverlapResults(streams[loc.ri][loc.s1], streams[loc.ri][NextChunk]) :
          \E sorts \in BlockSorts(res[1]) : loc' = SnpsStep(loc, res, sorts)
    /\ UNCHANGED <<Inputs, alg, RowVars>>

\* the with-block of the VCFWriter is left
SnpsReturn ==
    /\ alg = "snps" /\ loc.pc = "start" /\ loc.ri = Len(streams)
    /\ loc' = [loc EXCEPT !.pc = "done"]
    /\ UNCHANGED <<Inputs, alg, RowVars>>

------------------------------------------------------------------------------
(* The classification of one major-position row *)


\* rows of n weights that sum to total
RECURSIVE Rows(_, _)
Rows(n, total) ==
    IF n = 1 THEN {<<total>>}
    ELSE UNION {{<<k>> \o r : r \in Rows(n - 1, total - k)} : k \in 0..total}

\* lines 143-187 for one row: argsort, the two masks, the Variants
Classify ==
    /\ alg = "classify" /\ sorted_inds = <<>>
    /\ \E p \in ArgSorts(row) :
          /\ sorted_inds' = p
          /\ calls' = (IF IsHomozygous(row, p, ref_base, threshold)
                       THEN {[kind |-> "hom", v |-> HomVariant(1, 0, row, p, ref_base)]}
                       ELSE {})
                      \cup
                      (IF IsHeterozygous(row, p, ref_base, threshold)
                       THEN {[kind |-> "het", v |-> HetVariant(1, 0, row, p, ref_base)]}
                       ELSE {})
    /\ UNCHANGED <<Inputs, alg, loc, row, ref_base>>

InitClassify ==
    /\ regions = NoRegions
    /\ streams = <<>>
    /\ label_decoding \in Alphabets
    /\ refq = 0
    /\ threshold \in 0..Scale
    /\ alg = "classify"
    /\ loc = InitLoc
    /\ row \in Rows(Len(label_decoding), Scale)
    /\ ref_base \in {label_encoding(b) : b \in {BaseLetters[i] : i \in 1..Len(BaseLetters)}}
    /\ sorted_inds = <<>>
    /\ calls = {}

SpecClassify == InitClassify /\ [][Classify]_vars

------------------------------------------------------------------------------
InitInputs ==
    /\ regions = NoRegions
    /\ streams \in StreamLists(MaxChunks)
    /\ label_decoding \in Alphabets
    /\ refq = 0
    /\ threshold = 1

InitRow ==
    /\ row = <<>> /\ ref_base = 0 /\ sorted_inds = <<>> /\ calls = {}

Init ==
    /\ InitInputs
    /\ alg = "stitch"
    /\ loc = InitLoc
    /\ InitRow

Next ==
    \/ StitchBegin
    \/ StitchTerminal
    \/ StitchSkip
    \/ StitchOverlap
    \/ StitchReturn

Spec == Init /\ [][Next]_vars

InitSnps ==
    /\ regions = NoRegions
    /\ streams \in StreamLists(MaxChunks - 1)
    /\ label_decoding = <<"A", "C", "G", _gap_>>
    /\ refq = 0
    /\ threshold = 1
    /\ alg = "snps"
    /\ loc = InitLoc
    /\ InitRow

NextSnps ==
    \/ SnpsBegin
    \/ SnpsTerminal
    \/ SnpsOverlap
    \/ SnpsReturn

SpecSnps == InitSnps /\ [][NextSnps]_vars

------------------------------------------------------------------------------
(* One block of find_snps: lines 128-191 for a chunk s1 and a resume index, *)
(* the end index being the one the walk hands in                            *)

\* pos, probs = s1...[start_1_ind:end_1_ind]; ...; vcf_writer.write_variant(v)
Block ==
    /\ alg = "block" /\ loc.pc = "loop"
    /\ \E end_1_ind \in {None} \cup (0..ChunkLen(streams[loc.ri][loc.s1])) :
          \E sorts \in BlockSorts(end_1_ind) :
              loc' = [loc EXCEPT
                         !.ranges = Append(@, <<loc.ri, loc.s1, loc.start_1_ind, end_1_ind>>),
                         !.written = @ \o BlockVariants(loc.ri, loc.s1, loc.start_1_ind,
                                                        end_1_ind, sorts),
                         !.pc = "done"]
    /\ UNCHANGED <<Inputs, alg, RowVars>>

InitBlock ==
    /\ regions = NoRegions
    /\ streams \in {<< <<w>> >> : w \in Windows}
    /\ label_decoding \in Alphabets
    /\ refq \in 0..(Len(BaseLetters) - 1)
    /\ threshold \in 0..Scale
    /\ alg = "block"
    /\ \E a \in {None} \cup (0..(ChunkLen(streams[1][1]) - 1)) :
          loc = [InitLoc EXCEPT !.ri = 1, !.s1 = 1, !.start_1_ind = a, !.pc = "loop"]
    /\ InitRow

SpecBlock == InitBlock /\ [][Block]_vars

------------------------------------------------------------------------------
(* Lines 36-42 and 102-108: the regions reduced to reference names *)

\* region.start is None or region.end is None
Ignores(region) == region.start = None \/ region.end = None

\* one pass of `for region in (Region.from_string(r) for r in regions)`
ReduceRegion ==
    /\ loc.pc = "regions" /\ Len(loc.ref_names) < Len(regions.list)
    /\ LET r      == regions.list[Len(loc.ref_names) + 1]
           region == from_string(r)
       IN  loc' = [loc EXCEPT
                      !.warnings = IF Ignores(region) THEN Append(@, r) ELSE @,
                      !.ref_names = Append(@, region.ref_name)]
    /\ UNCHANGED <<Inputs, alg, RowVars>>

\* the loop over the regions is left
RegionsDone ==
    /\ loc.pc = "regions" /\ Len(loc.ref_names) = Len(regions.list)
    /\ loc' = [loc EXCEPT !.pc = "start"]
    /\ UNCHANGED <<Inputs, alg, RowVars>>

InitRegions ==
    /\ regions \in {[supplied |-> TRUE, list |-> l] : l \in RegionLists(MaxRegions)}
    /\ streams = <<>>
    /\ label_decoding \in Alphabets
    /\ refq = 0
    /\ threshold = 1
    /\ alg \in {"stitch", "snps"}
    /\ loc = [InitLoc EXCEPT !.pc = "regions"]
    /\ InitRow

NextRegions ==
    \/ ReduceRegion
    \/ RegionsDone

SpecRegions == InitRegions /\ [][NextRegions]_vars

------------------------------------------------------------------------------
(* stitch_from_probs run as a function: the references' generators yield     *)
(* gens, and get_sample_overlap answers as recorded in memo                 *)
RECURSIVE RunStitch(_, _, _)
RunStitch(f, gens, memo) ==
    IF f.pc = "start"
    THEN IF f.ri < Len(gens) THEN RunStitch(StitchBeginRef(f, gens[f.ri + 1]), gens, memo)
         ELSE [f EXCEPT !.pc = "done"]
    ELSE IF f.pc = "loop"
    THEN LET s2    == IF f.data_gen = <<>> THEN NoChunk ELSE Head(f.data_gen)
             asked == s2 # NoChunk /\ ~Contained(streams[f.ri][f.s1], streams[f.ri][s2])
             hits  == {m \in memo : m[1] = f.ri /\ m[2] = f.s1 /\ m[3] = s2}
         IN  IF asked /\ hits = {} THEN [f EXCEPT !.pc = "unknown"]
             ELSE IF asked
                  THEN LET m == CHOOSE h \in hits : TRUE
                       IN  RunStitch(StitchStep(f, <<m[4], m[5]>>), gens, memo)
                  ELSE RunStitch(StitchStep(f, <<None, None>>), gens, memo)
    ELSE f

------------------------------------------------------------------------------
(* Vocabulary of the properties *)

Final == loc.pc \in {"done", "raised"}

Range(q) == {q[i] : i \in 1..Len(q)}

\* every chunk of every reference, as the generators yield them
AllGens == [r \in 1..Len(streams) |-> [i \in 1..Len(streams[r]) |-> i]]

RECURSIVE Without(_, _)
Without(q, k) ==
    IF q = <<>> THEN <<>>
    ELSE (IF Head(q) = k THEN <<>> ELSE <<Head(q)>>) \o Without(Tail(q), k)

\* the chunks the walk has taken from the generator and dropped without
\* making them s1 or showing them to the resolver
Skipped(f) ==
    {c \in UNION {{<<r, k>> : k \in 2..Len(streams[r])} : r \in 1..f.ri} :
        /\ (c[1] < f.ri \/ c[2] \notin Range(f.data_gen))
        /\ \A i \in 1..Len(f.resolved) :
              ~(f.resolved[i][1] = c[1] /\ f.resolved[i][3] = c[2])}

\* the pileup columns of the rows [a:b] of a chunk
RowCols(ch, a, b) ==
    LET from == IF a = None THEN 0 ELSE Min(a, ChunkLen(ch))
        upto == IF b = None THEN ChunkLen(ch) ELSE Min(b, ChunkLen(ch))
    IN  IF from >= upto THEN <<>> ELSE [i \in 1..(upto - from) |-> ch.lo + from + i - 1]

RECURSIVE ConsumedCols(_, _, _)
\* the pileup columns of reference r decoded by ranges[i..], in decoding order
ConsumedCols(ranges, i, r) ==
    IF i > Len(ranges) THEN <<>>
    ELSE (IF ranges[i][1] = r
          THEN RowCols(streams[r][ranges[i][2]], ranges[i][3], ranges[i][4])
          ELSE <<>>) \o ConsumedCols(ranges, i + 1, r)

RECURSIVE ConsumedSyms(_, _, _)
\* the symbols of highest weight of the rows decoded by ranges[i..] for r
ConsumedSyms(ranges, i, r) ==
    IF i > Len(ranges) THEN <<>>
    ELSE (IF ranges[i][1] = r
          THEN LET rows == PySlice(LabelProbs(r, ranges[i][2]), ranges[i][3], ranges[i][4])
               IN  [j \in 1..Len(rows) |->
                       label_decoding[(CHOOSE x \in 0..(Len(rows[j]) - 1) :
                                          /\ \A y \in 0..(Len(rows[j]) - 1) : rows[j][y + 1] <= rows[j][x + 1]
                                          /\ \A y \in 0..(x - 1) : rows[j][y + 1] < rows[j][x + 1]) + 1]]
          ELSE <<>>) \o ConsumedSyms(ranges, i + 1, r)

RECURSIVE SeqOfRef(_, _, _)
\* the sequences of the records of reference r, joined
SeqOfRef(recs, i, r) ==
    IF i > Len(recs) THEN <<>>
    ELSE (IF recs[i].key[1] = r THEN recs[i].seq ELSE <<>>) \o SeqOfRef(recs, i + 1, r)

\* what the call hands back
Returned == IF loc.pc = "done" THEN loc.ref_assemblies ELSE <<>>

AllValid ==
    \A i \in 1..Len(loc.resolved) :
        LET m == loc.resolved[i]
        IN  ValidOverlap(streams[m[1]][m[2]], streams[m[1]][m[3]], <<m[4], m[5]>>)

MaxHi(r) == CHOOSE h \in {streams[r][k].hi : k \in 1..Len(streams[r])} :
                \A k \in 1..Len(streams[r]) : streams[r][k].hi <= h

NoEmptyStream == \A r \in 1..Len(streams) : streams[r] # <<>>

------------------------------------------------------------------------------
(* Properties of stitch_from_probs *)

\* C1: with every resolver answer a valid trim point, the call returns, and
\* for each reference the joined record sequences are the gap-stripped decode
\* of the pileup columns from the first chunk's first to the last retained
\* chunk's last, each decoded exactly once, in coordinate order.
C1_EveryColumnOnce ==
    (alg = "stitch" /\ Final /\ NoEmptyStream /\ AllValid) =>
        /\ loc.pc = "done"
        /\ \A r \in 1..Len(streams) :
              /\ ConsumedCols(loc.ranges, 1, r)
                    = [i \in 1..(MaxHi(r) - streams[r][1].lo + 1) |-> streams[r][1].lo + i - 1]
              /\ SeqOfRef(Returned, 1, r) = StripGap(ConsumedSyms(loc.ranges, 1, r))

\* C2: whenever the resolver reported no overlap for (s1, s2), the call
\* returns with one record ending at s1's last row and a later record
\* starting at s2's first coordinate.
C2_GapSplitsSpan ==
    (alg = "stitch" /\ Final /\ NoEmptyStream) =>
        \A i \in 1..Len(loc.resolved) :
            LET m == loc.resolved[i]
            IN  (m[4] = None /\ m[5] = None) =>
                    /\ loc.pc = "done"
                    /\ \E a \in 1..Len(Returned), b \in 1..Len(Returned) :
                          /\ a < b
                          /\ Returned[a].key[1] = m[1]
                          /\ Returned[a].key[3] = get_pos(streams[m[1]][m[2]], -1)
                          /\ Returned[b].key[1] = m[1]
                          /\ Returned[b].key[2] = get_pos(streams[m[1]][m[3]], 0)

\* the step takes a chunk s2 with s2.last_pos <= s1.last_pos from the generator
TakesContained ==
    /\ alg = "stitch" /\ loc.pc = "loop" /\ loc.data_gen # <<>>
    /\ PosLeq(PosAt(streams[loc.ri][Head(loc.data_gen)].hi), PosAt(streams[loc.ri][loc.s1].hi))

SkipFrame == TakesContained => loc' = [loc EXCEPT !.data_gen = Tail(loc.data_gen)]

RemovalEq ==
    (alg = "stitch" /\ Final) =>
        \A c \in Skipped(loc) :
            LET gens == [AllGens EXCEPT ![c[1]] = Without(@, c[2])]
                run  == RunStitch(InitLoc, gens, Range(loc.resolved))
            IN  /\ run.pc = loc.pc /\ run.err = loc.err
                /\ run.ref_assemblies = loc.ref_assemblies
                /\ run.resolved = loc.resolved

\* C3: a chunk s2 with s2.last_pos <= s1.last_pos only advances the
\* generator (no resolver call, s1, resume index, sequence, span start and
\* records unchanged), and the run ends as the run on the stream without it.
C3_SkipHasNoEffect == [][SkipFrame]_vars /\ []RemovalEq

C3_Witness ==
    /\ alg = "stitch" /\ loc.pc = "done" /\ Skipped(loc) # {}
    /\ Len(loc.resolved) > 0 /\ Len(loc.ref_assemblies) > 0

\* the step is a pass of the loop body that asked the resolver
AskedResolver == Len(loc'.resolved) = Len(loc.resolved) + 1
LastAnswer == loc'.resolved[Len(loc'.resolved)]
Emits == Len(loc'.ref_assemblies) > Len(loc.ref_assemblies)

EmitsOnlyAtSpanEnd ==
    (alg = "stitch" /\ Emits) =>
        \/ (loc.pc = "loop" /\ loc.data_gen = <<>>)
        \/ (AskedResolver /\ LastAnswer[5] = None)

\* C8: a record is emitted at a step only if the step is the terminal marker
\* or the resolver returned a None start index.
C8_EmitOnlyOnNoneStart == [][EmitsOnlyAtSpanEnd]_vars

EndWithoutStartIsGap ==
    (alg = "stitch" /\ AskedResolver /\ LastAnswer[4] # None /\ LastAnswer[5] = None) =>
        /\ Emits
        /\ loc'.seq = <<>>
        /\ loc'.start = get_pos(streams[loc.ri][LastAnswer[3]], 0)

\* C9: an end index with a None start index for a genuine s2 is a gap: the
\* sequence through s1 is emitted, the accumulator reset, and the next span
\* starts at s2's first coordinate.
C9_EndWithoutStartSplits == [][EndWithoutStartIsGap]_vars

\* C10: with every stream non-empty the call returns, and the last record of
\* each reference ends at the last row of its last retained chunk.
C10_FinalizesEveryReference ==
    (alg = "stitch" /\ Final /\ NoEmptyStream) =>
        /\ loc.pc = "done"
        /\ \A r \in 1..Len(streams) :
              \E a \in 1..Len(Returned) :
                  /\ Returned[a].key[1] = r
                  /\ Returned[a].key[3] = <<PosAt(MaxHi(r)).major + 1, PosAt(MaxHi(r)).minor>>
                  /\ \A b \in (a + 1)..Len(Returned) : Returned[b].key[1] # r

------------------------------------------------------------------------------
(* Properties of find_snps *)

\* C4: find_snps walks the chunk stream as stitch_from_probs does: it never
\* asks the resolver about a chunk s2 with s2.last_pos <= s1.last_pos, and
\* the (chunk, active row range) sequence it processes is the one
\* stitch_from_probs processes with the same resolver answers.
C4_SameWalkAsStitch ==
    (alg = "snps" /\ Final) =>
        /\ \A i \in 1..Len(loc.resolved) :
              LET m == loc.resolved[i]
              IN  ~PosLeq(PosAt(streams[m[1]][m[3]].hi), PosAt(streams[m[1]][m[2]].hi))
        /\ LET run == RunStitch(InitLoc, AllGens, Range(loc.resolved))
           IN  run.pc # "unknown" /\ run.ranges = loc.ranges

\* the row has been classified
Classified == alg = "classify" /\ sorted_inds # <<>>

GapIndex == CHOOSE i \in 0..(Len(label_decoding) - 1) : label_decoding[i + 1] = "-"
Top1 == sorted_inds[Len(sorted_inds)]
Top2 == sorted_inds[Len(sorted_inds) - 1]
HomCalls == {c \in calls : c.kind = "hom"}
HetCalls == {c \in calls : c.kind = "het"}

\* C5: no row is both a homozygous and a heterozygous candidate.
C5_HomHetExclusive == Classified => (HomCalls = {} \/ HetCalls = {})

C5_Witness ==
    /\ Classified /\ HetCalls # {}
    /\ Top1 # ref_base /\ Top1 # GapIndex /\ threshold > 0

\* C6: a homozygous candidate (alt = primary label, genotype homozygous-alt)
\* is emitted iff primary != reference, primary != gap and secondary_prob <
\* threshold; primary = reference with secondary_prob < threshold, or
\* primary = gap, emits nothing.
C6_HomozygousIff ==
    Classified =>
        /\ (HomCalls # {}) <=> (Top1 # ref_base /\ Top1 # GapIndex /\ row[Top2 + 1] < threshold)
        /\ \A c \in HomCalls : c.v.alt = <<label_decoding[Top1 + 1]>> /\ c.v.gt = "1"
        /\ ((Top1 = ref_base /\ row[Top2 + 1] < threshold) \/ Top1 = GapIndex) => calls = {}

C6_Witness == Classified /\ HomCalls # {} /\ row[Top2 + 1] > 0

\* the labels of a candidate's alternates
AltSet(v) == {v.alt[i] : i \in 1..Len(v.alt)}

------------------------------------------------------------------------------
(* Properties across references *)

\* reference r has been walked through its terminal marker
Walked(r) ==
    \E i \in 1..Len(loc.ranges) : loc.ranges[i][1] = r /\ loc.ranges[i][4] = None

\* C11: a requested reference that yields no chunks does not abort the run:
\* the call does not end with the failure of the empty reference, and every
\* other requested reference is still processed.
C11_EmptyReferenceConfined ==
    Final =>
        /\ loc.err # "StopIteration"
        /\ \A r \in 1..Len(streams) : streams[r] # <<>> => Walked(r)

RECURSIVE RecordsOf(_, _)
\* the records of reference r, in the order they were appended
RecordsOf(recs, r) ==
    IF recs = <<>> THEN <<>>
    ELSE (IF Head(recs).key[1] = r THEN <<Head(recs)>> ELSE <<>>) \o RecordsOf(Tail(recs), r)

\* stitch_from_probs called for reference r only, the resolver answering as
\* it did in the run observed
Alone(r) ==
    RunStitch([InitLoc EXCEPT !.ri = r - 1], [i \in 1..r |-> AllGens[i]], Range(loc.resolved))

\* C12: the records and the outcome (success or failure) of a reference are
\* those of the same reference processed alone, whatever references were
\* processed before it; and the records appear in the order the references
\* were requested.
C12_ReferencesIndependent ==
    (alg = "stitch" /\ Final) =>
        /\ \A r \in 1..loc.ri :
              Alone(r).pc # "unknown" =>
                  /\ RecordsOf(loc.ref_assemblies, r) = Alone(r).ref_assemblies
                  /\ (loc.pc = "raised" /\ loc.ri = r) <=> (Alone(r).pc = "raised")
                  /\ (loc.pc = "raised" /\ loc.ri = r) => loc.err = Alone(r).err
        /\ \A a \in 1..Len(loc.ref_assemblies), b \in 1..Len(loc.ref_assemblies) :
              a < b => loc.ref_assemblies[a].key[1] <= loc.ref_assemblies[b].key[1]

------------------------------------------------------------------------------
(* Properties of the find_snps walk *)

\* C13: the candidates of a reference reach the Variant Writer in
\* position-ascending order over the whole reference: each block is written
\* sorted by position, and no position written for a later block is smaller
\* than a position written for an earlier block.
C13_WrittenAscending ==
    alg = "snps" =>
        \A a \in 1..Len(loc.written), b \in 1..Len(loc.written) :
            (a < b /\ loc.written[a].chrom = loc.written[b].chrom) =>
                loc.written[a].pos <= loc.written[b].pos

\* the largest weight of a row, and the largest of the rest
MaxOf(r) == CHOOSE x \in Range(r) : \A y \in Range(r) : y <= x
SecondOf(r) ==
    LET top  == CHOOSE i \in 1..Len(r) : r[i] = MaxOf(r)
        rest == {r[i] : i \in (1..Len(r)) \ {top}}
    IN  CHOOSE x \in rest : \A y \in rest : y <= x

\* the candidates the step hands to the Variant Writer
NewWritten == SubSeq(loc'.written, Len(loc.written) + 1, Len(loc'.written))

\* the rows [resume index, end index) of the current chunk, as row numbers
ActiveRows ==
    LET n    == ChunkLen(streams[loc.ri][loc.s1])
        last == loc'.ranges[Len(loc'.ranges)]
        from == IF loc.start_1_ind = None THEN 0 ELSE Min(loc.start_1_ind, n)
        upto == IF last[4] = None THEN n ELSE Min(last[4], n)
    IN  {i \in 1..n : from < i /\ i <= upto}

\* candidate v is the call of row i of the current chunk
IsCallOfRow(v, i) ==
    LET p == Positions(streams[loc.ri][loc.s1])[i]
        w == LabelProbs(loc.ri, loc.s1)[i]
        b == ref_seq(loc.ri, p.major)
    IN  /\ p.minor = 0
        /\ v.chrom = loc.ri
        /\ v.pos = p.major
        /\ v.ref = b
        /\ v.info.ref_prob = w[(CHOOSE k \in 1..Len(label_decoding) : label_decoding[k] = b)]
        /\ v.info.primary_prob = MaxOf(w)
        /\ v.info.secondary_prob = SecondOf(w)

WritesFromActiveRows ==
    (alg \in {"snps", "block"} /\ loc.pc = "loop") =>
        /\ \A a \in 1..Len(NewWritten) : \E i \in ActiveRows : IsCallOfRow(NewWritten[a], i)
        /\ \A a \in 1..Len(NewWritten), b \in 1..Len(NewWritten) :
              NewWritten[a].pos = NewWritten[b].pos => a = b

\* C14: every candidate written at a step is the call of one row of the
\* active range [resume index, end index) of the current chunk whose minor
\* coordinate is 0: its position is the row's major coordinate, its
\* probabilities and reference base are those of that row, and no two
\* candidates of the block come from one row, so a row with minor > 0 yields
\* no candidate.
C14_CandidatesFromMajorRows == [][WritesFromActiveRows]_vars

\* a block with a resume index and an end index is written, an insertion row
\* of it lying before a major row that is called
C14_Witness ==
    /\ alg = "block" /\ loc.written # <<>>
    /\ \E i \in 1..Len(loc.ranges) :
          LET g == loc.ranges[i]
              cols == RowCols(streams[g[1]][g[2]], g[3], g[4])
          IN  /\ g[3] # None /\ g[3] > 0 /\ g[4] # None
              /\ \E a \in 1..Len(cols), b \in 1..Len(cols) :
                    /\ a < b /\ PosAt(cols[a]).minor > 0 /\ PosAt(cols[b]).minor = 0
                    /\ \E k \in 1..Len(loc.written) :
                          loc.written[k].pos = PosAt(cols[b]).major

------------------------------------------------------------------------------
(* Properties of the classification of a row, continued *)

\* C15: the argument of the quality logarithm of every candidate is positive
\* (clamped to a small positive value where 1 - primary_prob or
\* 1 - primary_prob - secondary_prob is not), so the quality is finite.
C15_QualityArgumentPositive ==
    Classified => \A c \in calls : c.v.qual_arg > 0

------------------------------------------------------------------------------
(* Properties of the record keys *)

\* the major.minor coordinate of pileup column c as a key prints it
CoordOf(c) == <<PosAt(c).major + 1, PosAt(c).minor>>

\* the pileup columns decoded into the record the step emits: those of the
\* passes since the previous record of the reference
SpanCols ==
    LET rg   == loc'.ranges
        n    == Len(rg)
        from == CHOOSE j \in 1..n :
                    /\ \A k \in j..(n - 1) : rg[k][1] = rg[n][1] /\ rg[k][4] # None
                    /\ \A i \in 1..(j - 1) :
                          \E k \in i..(n - 1) : rg[k][1] # rg[n][1] \/ rg[k][4] = None
    IN  ConsumedCols(SubSeq(rg, from, n), 1, rg[n][1])

KeyIsSpan ==
    (alg = "stitch" /\ Emits) =>
        LET rec == loc'.ref_assemblies[Len(loc'.ref_assemblies)]
        IN  /\ SpanCols # <<>>
            /\ rec.key[1] = loc.ri
            /\ rec.key[2] = CoordOf(SpanCols[1])
            /\ rec.key[3] = CoordOf(SpanCols[Len(SpanCols)])

\* C16: the key of every record is ref:start-end with start the coordinate
\* of the first row decoded into the record's span and end the coordinate of
\* the last row consumed for it, whatever the resolver answered.
C16_KeyNamesSpan == [][KeyIsSpan]_vars

------------------------------------------------------------------------------
(* Properties of the find_snps walk, continued *)

\* C17: with every stream non-empty, find_snps handles the terminal marker of
\* every reference without raising: the last chunk is consumed through its
\* last row and the walk goes on to the next requested reference.
C17_TerminalCompletes ==
    (alg = "snps" /\ Final /\ NoEmptyStream) =>
        /\ loc.pc = "done"
        /\ \A r \in 1..Len(streams) :
              \E i \in 1..Len(loc.ranges) :
                  /\ loc.ranges[i][1] = r
                  /\ loc.ranges[i][2] = Len(streams[r])
                  /\ loc.ranges[i][4] = None

------------------------------------------------------------------------------
(* Properties of the decoding *)

NotGap(x) == x # "-"

\* what stitch_from_probs has decoded for reference r so far: its records
\* and, while r is being walked, the accumulator
DecodedOf(r) ==
    SeqOfRef(loc.ref_assemblies, 1, r) \o (IF loc.ri = r THEN loc.seq ELSE <<>>)

\* a row of the ranges decoded for r in which two labels share the maximum
TieDecoded(r) ==
    \E i \in 1..Len(loc.ranges) :
        /\ loc.ranges[i][1] = r
        /\ \E w \in Range(PySlice(LabelProbs(r, loc.ranges[i][2]),
                                  loc.ranges[i][3], loc.ranges[i][4])) :
              Cardinality({k \in 1..Len(w) : w[k] = MaxOf(w)}) > 1

\* C18: each row of an active range is decoded to the label of maximal
\* probability, the lowest label index winning a tie; a row decoded to the
\* gap contributes no character; no sequence holds the gap symbol.
C18_DecodesLowestArgmaxNoGap ==
    alg = "stitch" =>
        /\ \A r \in 1..loc.ri :
              DecodedOf(r) = SelectSeq(ConsumedSyms(loc.ranges, 1, r), NotGap)
        /\ \A i \in 1..Len(loc.ref_assemblies) : "-" \notin Range(loc.ref_assemblies[i].seq)
        /\ "-" \notin Range(loc.seq)

C18_Witness ==
    /\ alg = "stitch" /\ loc.pc = "done" /\ loc.ref_assemblies # <<>>
    /\ \E r \in 1..Len(streams) :
          /\ TieDecoded(r)
          /\ "-" \in Range(ConsumedSyms(loc.ranges, 1, r))
          /\ SeqOfRef(loc.ref_assemblies, 1, r) # <<>>

\* C19: the primary label find_snps selects for a row is the label
\* stitch_from_probs decodes for it, also when labels tie for the maximum,
\* and the secondary label is not the primary label.
C19_PrimaryIsDecodedLabel ==
    Classified => (Top1 = ArgMax(row) /\ Top2 # Top1)

------------------------------------------------------------------------------
(* Properties of the regions argument *)

\* the region string names a start/end sub-range
CarriesSubRange(s) == s.bounds # ""

\* C20: every supplied region is reduced to its reference name, and the
\* warning that start:end is ignored is logged exactly for the regions that
\* carry a start/end sub-range, not for a bare reference name.
C20_WarnsForSubRangesOnly ==
    (regions.supplied /\ loc.pc = "start") =>
        /\ loc.ref_names = [i \in 1..Len(regions.list) |-> regions.list[i].ref_name]
        /\ loc.warnings = SelectSeq(regions.list, CarriesSubRange)

====
